---- MODULE Spec2Model ----
(***************************************************************************)
(* Model of src/App.py: a FastAPI application that ingests PDF documents   *)
(* (upload or URL), builds a retrieval QA chain over their text and        *)
(* answers questions from it.                                              *)
(*                                                                         *)
(* The three POST handlers are `async def` coroutines that contain no      *)
(* await: each one runs on the event loop from its first statement to its  *)
(* return (or raise) and no other handler starts meanwhile.  The model     *)
(* keeps the requests that have arrived but not started in `pending`, and  *)
(* the one handler the event loop is running in `call`; the statements of  *)
(* a handler are separate steps of that one call.                          *)
(*                                                                         *)
(* A Python string is a sequence of fragments (characters of a document,   *)
(* or the literal and interpolated parts of an f-string); "\n" is the      *)
(* newline fragment.  Python's None is the record None, and a value that   *)
(* may be None is wrapped in a record.                                     *)
(***************************************************************************)
EXTENDS Integers, Sequences, FiniteSets, TLC

VARIABLES retrieval_qa_chain, pending, call, hist

vars == <<retrieval_qa_chain, pending, call, hist>>

\* ---------------------------------------------------------------- bounds
\* Requests of one kind that may wait for the event loop at once.
MaxPending == 1
\* Files in one upload.
MaxFiles == 2
\* Pages of a document given to extract_text_from_pdf on its own.
MaxPages == 3
\* Fragments of a raw answer given to format_response on its own.
MaxRaw == 3

\* ------------------------------------------------------------- constants
\* search_kwargs={"k": 1}
search_k == 1

\* ------------------------------------------------------------- values
None == [type |-> "NoneType"]
Text(s) == [s |-> s]

IsSpace(c) == c \in {" ", "\n"}

RECURSIVE lstrip(_)
lstrip(s) == IF s # <<>> /\ IsSpace(Head(s)) THEN lstrip(Tail(s)) ELSE s

RECURSIVE rstrip(_)
rstrip(s) ==
    IF s # <<>> /\ IsSpace(s[Len(s)]) THEN rstrip(SubSeq(s, 1, Len(s) - 1)) ELSE s

\* str.strip()
strip(s) == rstrip(lstrip(s))

\* "\n".join(lines)
RECURSIVE join(_)
join(lines) ==
    IF lines = <<>> THEN <<>>
    ELSE IF Len(lines) = 1 THEN lines[1]
    ELSE lines[1] \o <<"\n">> \o join(Tail(lines))

\* s.split("\n"): the lines of a string
RECURSIVE split_lines(_, _)
split_lines(s, cur) ==
    IF s = <<>> THEN <<cur>>
    ELSE IF Head(s) = "\n" THEN <<cur>> \o split_lines(Tail(s), <<>>)
    ELSE split_lines(Tail(s), Append(cur, Head(s)))

Lines(s) == split_lines(s, <<>>)

\* ------------------------------------------------------------- inputs
\* A PDF byte stream: either PdfReader parses it into pages, each of which
\* extracts to a text or to None or raises in extract_text, or PdfReader
\* raises `reason`.
Pdf(pages) == [parseable |-> TRUE, pages |-> pages, reason |-> <<>>]
Garbage == [parseable |-> FALSE, pages |-> <<>>, reason |-> <<"EOF marker not found">>]

Broken == [raises |-> <<"unsupported filter">>]
IsBroken(page) == "raises" \in DOMAIN page

DocX == Pdf(<< Text(<<"a">>), None, Text(<<"b">>) >>)
DocY == Pdf(<< Text(<<"c", " ">>) >>)
DocBlank == Pdf(<< None, Text(<<" ">>), Text(<<>>) >>)

\* An UploadFile: file.read() returns the bytes or raises.
Files ==
    { [filename |-> "x.pdf", readable |-> TRUE, content |-> DocX],
      [filename |-> "y.pdf", readable |-> TRUE, content |-> DocY],
      [filename |-> "blank.pdf", readable |-> TRUE, content |-> DocBlank],
      [filename |-> "bad.pdf", readable |-> TRUE, content |-> Garbage],
      [filename |-> "io.pdf", readable |-> FALSE, content |-> Garbage] }

UploadLists == UNION { [1..n -> Files] : n \in 1..MaxFiles }

\* The url parameter of /process_url/; "" is the empty string.
Urls == { <<>>, <<"http://h/doc.pdf">> }

\* What requests.get can do: raise, or return a response.
StatusCodes == {200, 404}
CodeStr == (200 :> "200") @@ (404 :> "404")
Downloads ==
    { [raised |-> TRUE, reason |-> <<"timed out">>, status_code |-> 0, content |-> Garbage] }
    \cup { [raised |-> FALSE, reason |-> <<>>, status_code |-> c, content |-> d] :
             c \in StatusCodes, d \in {DocX, DocY, DocBlank, Garbage} }

Questions == { <<"q">> }

\* ------------------------------------------------ extract_text_from_pdf
\* variant: the loop ends at the first page that has no text
RECURSIVE page_texts_stopping(_)
page_texts_stopping(pages) ==
    IF pages = <<>> THEN <<>>
    ELSE LET page_text == Head(pages)
         IN  IF page_text # None /\ page_text.s # <<>>
             THEN page_text.s \o page_texts_stopping(Tail(pages))
             ELSE <<>>

\* the loop of lines 59-62 over the pages that are left
RECURSIVE page_texts(_)
page_texts(pages) ==
    IF pages = <<>> THEN <<>>
    ELSE LET page_text == Head(pages)
         IN  (IF page_text # None /\ page_text.s # <<>> THEN page_text.s ELSE <<>>)
             \o page_texts(Tail(pages))

\* the exception of the first page whose extract_text raises
first_raise(pages) ==
    pages[CHOOSE n \in DOMAIN pages :
            IsBroken(pages[n]) /\ \A k \in 1..(n - 1) : ~IsBroken(pages[k])].raises

extract_text_from_pdf(file) ==
    IF ~file.parseable
    THEN [text |-> None, error |-> Text(<<"Error reading PDF: ">> \o file.reason)]
    ELSE IF \E n \in DOMAIN file.pages : IsBroken(file.pages[n])
    THEN [text |-> None, error |-> Text(<<"Error reading PDF: ">> \o first_raise(file.pages))]
    ELSE [text |-> Text(page_texts(file.pages)), error |-> None]

\* ------------------------------------------------ split_text_into_chunks
\* RecursiveCharacterTextSplitter(chunk_size=500, chunk_overlap=100) on a
\* text of at most 500 characters (every text the inputs below produce):
\* the pieces are merged back into one chunk, which is stripped and dropped
\* when empty.
split_text_into_chunks(text) ==
    LET chunk == strip(text)
    IN  IF chunk = <<>> THEN <<>> ELSE <<chunk>>

\* ------------------------------------------------ create_vectorstore
\* variant: the new chunks are added to the store of the current chain
create_vectorstore_adding(text_chunks) ==
    LET old == IF retrieval_qa_chain = None THEN <<>>
               ELSE retrieval_qa_chain.retriever.texts
    IN  [texts |-> old \o text_chunks, ntotal |-> Len(old) + Len(text_chunks)]

\* variant: an empty index is made and the chunks are never put into it
create_vectorstore_unfilled(text_chunks) == [texts |-> <<>>, ntotal |-> 0]

\* FAISS.from_texts: one vector per chunk, the chunks kept as the docstore.
create_vectorstore(text_chunks) ==
    [texts |-> text_chunks, ntotal |-> Len(text_chunks)]

\* ------------------------------------------------ initialize_retrieval_qa
initialize_retrieval_qa(vectorstore) ==
    [type |-> "RetrievalQA", retriever |-> vectorstore, k |-> search_k]

\* ------------------------------------------------------------- state
Idle == [kind |-> "idle"]

\* The locals of one running handler.  before, docs, fetched, at, overlapped
\* and outcome are history fields: the chain at the start of the call, the
\* documents whose text was extracted, what requests.get did, the step that
\* ended the call, whether this request was waiting while the ingestion
\* before it ran and succeeded, and how the call ended.
Frame(kind) ==
    [kind |-> kind, pc |-> "start", uploaded_files |-> <<>>, url |-> <<>>,
     question |-> <<>>, i |-> 1, text |-> <<>>, status |-> <<>>,
     text_chunks |-> <<>>, vectorstore |-> None, docs |-> <<>>,
     chain |-> None, context |-> <<>>, response |-> None,
     before |-> retrieval_qa_chain, fetched |-> None, at |-> "running",
     overlapped |-> FALSE,
     outcome |-> "running", http |-> None]

\* What the transport sends back: a JSON body with 200, an HTTPException
\* (400, 500) with its detail, or the server's own 500 for an exception no
\* handler caught.
Http(code, body) == [status_code |-> code, body |-> body, unhandled |-> FALSE]
Unhandled == [status_code |-> 500, body |-> <<"Internal Server Error">>, unhandled |-> TRUE]

Kinds == {"upload", "url", "ask"}

Init ==
    /\ retrieval_qa_chain = None
    /\ pending = [k \in Kinds |-> 0]
    /\ call = Idle
    /\ hist = [ok |-> FALSE, failed |-> FALSE, replaced |-> FALSE, docs |-> <<>>,
               chained |-> FALSE]

\* A request reaches the server and waits for the event loop.
Arrive(k) ==
    /\ pending[k] < MaxPending
    /\ pending' = [pending EXCEPT ![k] = @ + 1]
    /\ UNCHANGED <<retrieval_qa_chain, call, hist>>

\* ------------------------------------------------ process_documents
\* return of process_documents with a status string (lines 109-140), then
\* the handler's return {"status": status}
Returned(f, s, outcome) ==
    [f EXCEPT !.pc = "done", !.at = f.pc, !.outcome = outcome, !.http = Http(200, s)]

\* an exception leaves process_documents and the handler
Raised(f) ==
    [f EXCEPT !.pc = "done", !.at = f.pc, !.outcome = "raised", !.http = Unhandled]

\* variant: a failed ingestion drops the chain it found
Fail_clears(f) ==
    /\ hist' = [hist EXCEPT !.failed = TRUE]
    /\ call' = f
    /\ retrieval_qa_chain' = None
    /\ UNCHANGED pending

Fail(f) ==
    /\ hist' = [hist EXCEPT !.failed = TRUE]
    /\ call' = f
    /\ UNCHANGED <<retrieval_qa_chain, pending>>

\* f"{error}\nStatus: {status[-1]}"
last_status(head, status) == head \o <<"\n", "Status: ">> \o status[Len(status)]

\* variant: the trail first and the outcome as its last line
all_status_outcome_last(head, status) == <<"Status: ">> \o join(Append(status, head))

\* head + "\nStatus: " + "\n".join(status)
all_status(head, status) == head \o <<"\n", "Status: ">> \o join(status)

\* variant: an upload drops the current chain before it reads its files
upload_documents_resetting ==
    /\ call = Idle
    /\ pending["upload"] > 0
    /\ \E uploaded_files \in UploadLists :
         call' = [Frame("upload") EXCEPT
                    !.uploaded_files = uploaded_files,
                    !.status = << <<"Processing uploaded files...">> >>,
                    !.overlapped = hist.chained,
                    !.pc = "file"]
    /\ pending' = [pending EXCEPT !["upload"] = @ - 1]
    /\ retrieval_qa_chain' = None
    /\ hist' = [hist EXCEPT !.chained = FALSE]

\* upload_documents starts: process_documents(uploaded_files=...), line 104
upload_documents ==
    /\ call = Idle
    /\ pending["upload"] > 0
    /\ \E uploaded_files \in UploadLists :
         call' = [Frame("upload") EXCEPT
                    !.uploaded_files = uploaded_files,
                    !.status = << <<"Processing uploaded files...">> >>,
                    !.overlapped = hist.chained,
                    !.pc = "file"]
    /\ pending' = [pending EXCEPT !["upload"] = @ - 1]
    /\ hist' = [hist EXCEPT !.chained = FALSE]
    /\ UNCHANGED retrieval_qa_chain

\* variant: a file that does not parse is skipped and the loop goes on
process_file_skipping ==
    /\ call.kind = "upload" /\ call.pc = "file"
    /\ LET file == call.uploaded_files[call.i]
           r == extract_text_from_pdf(file.content)
           next == IF call.i = Len(call.uploaded_files) THEN "check" ELSE "file"
       IN  IF ~file.readable
           THEN Fail(Raised(call))
           ELSE IF r.error # None
           THEN /\ call' = [call EXCEPT !.i = @ + 1, !.pc = next]
                /\ UNCHANGED <<retrieval_qa_chain, pending, hist>>
           ELSE /\ call' = [call EXCEPT
                              !.text = @ \o r.text.s,
                              !.docs = Append(@, file.content),
                              !.status = Append(@, <<"Processed file: ", file.filename>>),
                              !.i = @ + 1,
                              !.pc = next]
                /\ UNCHANGED <<retrieval_qa_chain, pending, hist>>

\* one iteration of the loop over uploaded_files, lines 105-111
process_file ==
    /\ call.kind = "upload" /\ call.pc = "file"
    /\ LET file == call.uploaded_files[call.i]
           r == extract_text_from_pdf(file.content)
       IN  IF ~file.readable
           THEN Fail(Raised(call))
           ELSE IF r.error # None
           THEN Fail(Returned(call, last_status(r.error.s, call.status), "error"))
           ELSE /\ call' = [call EXCEPT
                              !.text = @ \o r.text.s,
                              !.docs = Append(@, file.content),
                              !.status = Append(@, <<"Processed file: ", file.filename>>),
                              !.i = @ + 1,
                              !.pc = IF call.i = Len(call.uploaded_files)
                                     THEN "check" ELSE "file"]
                /\ UNCHANGED <<retrieval_qa_chain, pending, hist>>

\* process_url starts: process_documents(url=...), lines 103, 112-113
process_url ==
    /\ call = Idle
    /\ pending["url"] > 0
    /\ \E url \in Urls :
         call' = IF url = <<>>
                 THEN [Frame("url") EXCEPT !.pc = "check"]
                 ELSE [Frame("url") EXCEPT
                         !.url = url,
                         !.status = << <<"Downloading from URL: ">> \o url >>,
                         !.pc = "download"]
    /\ pending' = [pending EXCEPT !["url"] = @ - 1]
    /\ UNCHANGED <<retrieval_qa_chain, hist>>

\* variant: the status code of the response is not looked at
download_unchecked ==
    /\ call.kind = "url" /\ call.pc = "download"
    /\ \E response \in Downloads :
         LET r == extract_text_from_pdf(response.content)
             f == [call EXCEPT !.fetched = response]
         IN  IF response.raised
             THEN Fail(Returned(f,
                      last_status(<<"Error downloading from URL: ">> \o response.reason,
                                  f.status), "error"))
             ELSE IF r.error # None
             THEN Fail(Returned(f, last_status(r.error.s, f.status), "error"))
             ELSE /\ call' = [f EXCEPT
                                !.text = r.text.s,
                                !.docs = <<response.content>>,
                                !.status = Append(@, <<"Downloaded and processed PDF from URL">>),
                                !.pc = "check"]
                  /\ UNCHANGED <<retrieval_qa_chain, pending, hist>>

\* the try block of the URL branch, lines 114-125
download ==
    /\ call.kind = "url" /\ call.pc = "download"
    /\ \E response \in Downloads :
         LET r == extract_text_from_pdf(response.content)
             f == [call EXCEPT !.fetched = response]
         IN  IF response.raised
             THEN Fail(Returned(f,
                      last_status(<<"Error downloading from URL: ">> \o response.reason,
                                  f.status), "error"))
             ELSE IF response.status_code # 200
             THEN Fail(Returned(f,
                      last_status(<<"Error: ", "Failed to download (Status ",
                                    CodeStr[response.status_code], ")">>,
                                  f.status), "error"))
             ELSE IF r.error # None
             THEN Fail(Returned(f, last_status(r.error.s, f.status), "error"))
             ELSE /\ call' = [f EXCEPT
                                !.text = r.text.s,
                                !.docs = <<response.content>>,
                                !.status = Append(@, <<"Downloaded and processed PDF from URL">>),
                                !.pc = "check"]
                  /\ UNCHANGED <<retrieval_qa_chain, pending, hist>>

\* variant: `if not text:`, a test without the strip
check_text_unstripped ==
    /\ call.kind \in {"upload", "url"} /\ call.pc = "check"
    /\ IF call.text = <<>>
       THEN Fail(Returned(call,
                all_status(<<"Error: ", "No text found in the documents.">>, call.status),
                "error"))
       ELSE /\ call' = [call EXCEPT !.pc = "split"]
            /\ UNCHANGED <<retrieval_qa_chain, pending, hist>>

\* if not text.strip(), lines 127-128
check_text ==
    /\ call.kind \in {"upload", "url"} /\ call.pc = "check"
    /\ IF strip(call.text) = <<>>
       THEN Fail(Returned(call,
                all_status(<<"Error: ", "No text found in the documents.">>, call.status),
                "error"))
       ELSE /\ call' = [call EXCEPT !.pc = "split"]
            /\ UNCHANGED <<retrieval_qa_chain, pending, hist>>

\* variant: the except branch reports the last stage description only
caught_last_only(f, e) == Fail(Returned(f, last_status(<<"Error: ">> \o e, f.status), "error"))

\* except Exception as e: return f"Error: {e}\nStatus: " + ..., lines 138-140
caught(f, e) == Fail(Returned(f, all_status(<<"Error: ">> \o e, f.status), "error"))

\* lines 131-132
split_step ==
    /\ call.kind \in {"upload", "url"} /\ call.pc = "split"
    /\ LET f == [call EXCEPT !.status = Append(@, <<"Splitting text into chunks...">>)]
       IN  \/ /\ call' = [f EXCEPT !.text_chunks = split_text_into_chunks(call.text),
                                    !.pc = "vectorstore"]
              /\ UNCHANGED <<retrieval_qa_chain, pending, hist>>
           \/ caught(f, <<"splitter failed">>)

\* variant: the chain is published as soon as the store object exists,
\* before any chunk has been embedded into it
vectorstore_step_publishing ==
    /\ call.kind \in {"upload", "url"} /\ call.pc = "vectorstore"
    /\ LET f == [call EXCEPT !.status = Append(@, <<"Creating vectorstore...">>)]
       IN  \/ /\ call.text_chunks # <<>>
              /\ call' = [f EXCEPT !.vectorstore = create_vectorstore(call.text_chunks),
                                    !.pc = "chain"]
              /\ retrieval_qa_chain' =
                     initialize_retrieval_qa([texts |-> call.text_chunks, ntotal |-> 0])
              /\ UNCHANGED <<pending, hist>>
           \/ caught(f, <<"embedding failed">>)

\* lines 133-134; FAISS.from_texts raises on an empty list of texts, and the
\* embedding model may fail
vectorstore_step ==
    /\ call.kind \in {"upload", "url"} /\ call.pc = "vectorstore"
    /\ LET f == [call EXCEPT !.status = Append(@, <<"Creating vectorstore...">>)]
       IN  \/ /\ call.text_chunks # <<>>
              /\ call' = [f EXCEPT !.vectorstore = create_vectorstore(call.text_chunks),
                                    !.pc = "chain"]
              /\ UNCHANGED <<retrieval_qa_chain, pending, hist>>
           \/ caught(f, <<"embedding failed">>)

\* variant: the chain is assigned only while the global is still None
chain_step_keeping_first ==
    /\ call.kind \in {"upload", "url"} /\ call.pc = "chain"
    /\ LET f == [call EXCEPT !.status = Append(@, <<"Initializing QA chain...">>)]
       IN  \/ /\ retrieval_qa_chain' =
                     IF retrieval_qa_chain = None
                     THEN initialize_retrieval_qa(call.vectorstore)
                     ELSE retrieval_qa_chain
              /\ call' = Returned(f,
                            all_status(<<"Documents processed successfully. Ask your questions!">>,
                                       f.status), "success")
              /\ hist' = [hist EXCEPT
                            !.ok = TRUE,
                            !.docs = call.docs,
                            !.replaced = @ \/ (call.before # None
                                /\ call.before # initialize_retrieval_qa(call.vectorstore))]
              /\ UNCHANGED pending
           \/ caught(f, <<"chain init failed">>)

\* lines 135-137
chain_step ==
    /\ call.kind \in {"upload", "url"} /\ call.pc = "chain"
    /\ LET f == [call EXCEPT !.status = Append(@, <<"Initializing QA chain...">>)]
       IN  \/ /\ retrieval_qa_chain' = initialize_retrieval_qa(call.vectorstore)
              /\ call' = Returned(f,
                            all_status(<<"Documents processed successfully. Ask your questions!">>,
                                       f.status), "success")
              /\ hist' = [hist EXCEPT
                            !.ok = TRUE,
                            !.docs = call.docs,
                            !.replaced = @ \/ (call.before # None
                                /\ call.before # initialize_retrieval_qa(call.vectorstore))]
              /\ UNCHANGED pending
           \/ caught(f, <<"chain init failed">>)

\* the response is sent and the event loop takes the next request
respond ==
    /\ call # Idle /\ call.pc = "done"
    /\ call' = Idle
    /\ hist' = IF call.kind = "ask" THEN hist
               ELSE [hist EXCEPT !.chained = call.outcome = "success"
                                               /\ pending["upload"] > 0]
    /\ UNCHANGED <<retrieval_qa_chain, pending>>

\* ------------------------------------------------ format_response
\* where ".*" stops: at the next newline or at the end of the string
RECURSIVE rest_of_line(_)
rest_of_line(s) == IF s = <<>> \/ Head(s) = "\n" THEN s ELSE rest_of_line(Tail(s))

\* re.sub(r"(Context:.*|Answer:)", "", response, flags=re.IGNORECASE):
\* "Context:" goes with the rest of its line, "Answer:" goes alone
RECURSIVE re_sub(_)
re_sub(s) ==
    IF s = <<>> THEN <<>>
    ELSE IF Head(s) \in {"Context:", "context:"} THEN re_sub(rest_of_line(Tail(s)))
    ELSE IF Head(s) \in {"Answer:", "answer:"} THEN re_sub(Tail(s))
    ELSE <<Head(s)>> \o re_sub(Tail(s))

\* an exception that leaves a function
Exception(e) == [raised |-> e]

\* variant: the body of the try block without the try
format_response_unguarded(question, response) ==
    IF response = None THEN Exception(<<"TypeError">>)
    ELSE Text(<<"<p>">> \o strip(re_sub(response.s)) \o <<"</p>">>)

\* re.sub raises TypeError on a response that is not a string, and the
\* except branch returns the response as it came
format_response(question, response) ==
    IF response = None THEN response
    ELSE Text(<<"<p>">> \o strip(re_sub(response.s)) \o <<"</p>">>)

\* ------------------------------------------------ ask_question
\* What the language model may generate from the prompt
\* "{question}\n\nContext:\n{context}\n\nAnswer:": a continuation, or a
\* text that echoes markers of the prompt.
Generations(question, context) ==
    { <<" ">> \o context,
      <<"Answer:", " ">> \o context \o <<"\n", "Context:", " ">> \o question \o <<"\n">> }

\* raise HTTPException(status_code=..., detail=...)
HTTPException(f, code, detail) ==
    [f EXCEPT !.pc = "done", !.outcome = "raised", !.http = Http(code, detail)]

\* variant: with no chain the handler answers 200 with an empty response
ask_question_empty_answer ==
    /\ call = Idle
    /\ pending["ask"] > 0
    /\ \E question \in Questions :
         LET f == [Frame("ask") EXCEPT !.question = question]
         IN  call' = IF retrieval_qa_chain = None
                     THEN [f EXCEPT !.pc = "done", !.outcome = "success",
                                    !.http = Http(200, <<"<p>", "</p>">>)]
                     ELSE [f EXCEPT !.chain = retrieval_qa_chain, !.pc = "retrieve"]
    /\ pending' = [pending EXCEPT !["ask"] = @ - 1]
    /\ UNCHANGED <<retrieval_qa_chain, hist>>

\* lines 144-146: the handler starts and tests the global
ask_question ==
    /\ call = Idle
    /\ pending["ask"] > 0
    /\ \E question \in Questions :
         LET f == [Frame("ask") EXCEPT !.question = question]
         IN  call' = IF retrieval_qa_chain = None
                     THEN HTTPException(f, 400, <<"Documents have not been processed yet.">>)
                     ELSE [f EXCEPT !.chain = retrieval_qa_chain, !.pc = "retrieve"]
    /\ pending' = [pending EXCEPT !["ask"] = @ - 1]
    /\ UNCHANGED <<retrieval_qa_chain, hist>>

\* variant: a failed answer also resets the global
ask_caught_resetting(f, e) ==
    /\ call' = HTTPException(f, 500, <<"Error: ">> \o e)
    /\ retrieval_qa_chain' = None
    /\ UNCHANGED <<pending, hist>>

\* except Exception as e: raise HTTPException(500, f"Error: {e}"), lines 151-153
ask_caught(f, e) ==
    /\ call' = HTTPException(f, 500, <<"Error: ">> \o e)
    /\ UNCHANGED <<retrieval_qa_chain, pending, hist>>

\* line 148, first half: the retriever of the chain embeds the query and
\* returns the k most similar passages of the vectorstore
retrieve ==
    /\ call.kind = "ask" /\ call.pc = "retrieve"
    /\ \/ \E j \in 1..call.chain.retriever.ntotal :
              /\ call' = [call EXCEPT !.context = call.chain.retriever.texts[j],
                                       !.pc = "generate"]
              /\ UNCHANGED <<retrieval_qa_chain, pending, hist>>
       \/ ask_caught(call, <<"embedding failed">>)

\* line 148, second half: the language model generates from the prompt
generate ==
    /\ call.kind = "ask" /\ call.pc = "generate"
    /\ \/ \E raw \in Generations(call.question, call.context) :
              /\ call' = [call EXCEPT !.response = Text(raw), !.pc = "format"]
              /\ UNCHANGED <<retrieval_qa_chain, pending, hist>>
       \/ ask_caught(call, <<"generation failed">>)

\* lines 149-150
format_step ==
    /\ call.kind = "ask" /\ call.pc = "format"
    /\ call' = [call EXCEPT
                  !.pc = "done", !.outcome = "success",
                  !.http = Http(200, format_response(call.question, call.response).s)]
    /\ UNCHANGED <<retrieval_qa_chain, pending, hist>>

\* ------------------------------------------------------------- system
Next ==
    \/ \E k \in Kinds : Arrive(k)
    \/ upload_documents
    \/ process_file
    \/ process_url
    \/ download
    \/ check_text
    \/ split_step
    \/ vectorstore_step
    \/ chain_step
    \/ ask_question
    \/ retrieve
    \/ generate
    \/ format_step
    \/ respond

Spec == Init /\ [][Next]_vars

\* ------------------------------------------------ functions on their own
\* extract_text_from_pdf applied to one document
PageValues == { Text(<<"a">>), Text(<<"b", " ">>), Text(<<>>), None, Broken }

ExtractInputs ==
    { Garbage } \cup { Pdf(pages) : pages \in UNION { [1..n -> PageValues] : n \in 0..MaxPages } }

InitExtract ==
    /\ retrieval_qa_chain = None
    /\ pending = [k \in Kinds |-> 0]
    /\ hist = [ok |-> FALSE, failed |-> FALSE, replaced |-> FALSE, docs |-> <<>>,
               chained |-> FALSE]
    /\ call \in { [kind |-> "extract", pc |-> "start", file |-> file, result |-> None] :
                     file \in ExtractInputs }

extract_call ==
    /\ call.kind = "extract" /\ call.pc = "start"
    /\ call' = [call EXCEPT !.pc = "done", !.result = extract_text_from_pdf(call.file)]
    /\ UNCHANGED <<retrieval_qa_chain, pending, hist>>

SpecExtract == InitExtract /\ [][extract_call]_vars

\* format_response applied to one raw answer: a string, or the value None
\* that is not a string
RawFragments == {"Answer:", "answer:", "Context:", "w", " ", "\n"}

RawAnswers ==
    { None } \cup { Text(raw) : raw \in UNION { [1..n -> RawFragments] : n \in 0..MaxRaw } }

InitFormat ==
    /\ retrieval_qa_chain = None
    /\ pending = [k \in Kinds |-> 0]
    /\ hist = [ok |-> FALSE, failed |-> FALSE, replaced |-> FALSE, docs |-> <<>>,
               chained |-> FALSE]
    /\ call \in { [kind |-> "format", pc |-> "start", question |-> question,
                    response |-> response, result |-> None] :
                     question \in Questions, response \in RawAnswers }

format_call ==
    /\ call.kind = "format" /\ call.pc = "start"
    /\ call' = [call EXCEPT !.pc = "done",
                            !.result = format_response(call.question, call.response)]
    /\ UNCHANGED <<retrieval_qa_chain, pending, hist>>

SpecFormat == InitFormat /\ [][format_call]_vars

\* ------------------------------------------------------------- properties
Ingesting == call # Idle /\ call.kind \in {"upload", "url"}
Asking == call # Idle /\ call.kind = "ask"

\* the text of a list of documents, page by page, document by document
RECURSIVE TextOf(_)
TextOf(docs) ==
    IF docs = <<>> THEN <<>> ELSE page_texts(Head(docs).pages) \o TextOf(Tail(docs))

\* the passages of a list of documents
CorpusOf(docs) == split_text_into_chunks(TextOf(docs))

Range(seq) == { seq[n] : n \in DOMAIN seq }

\* C1: an ingestion that has not succeeded -- still running, or ended by a
\* failure of any stage -- has left the session as it found it, and an
\* answer is drawn from the corpus of the last ingestion that succeeded.
C1_FailedIngestionKeepsSession ==
    /\ (Ingesting /\ call.outcome # "success") => retrieval_qa_chain = call.before
    /\ (Asking /\ call.context # <<>>) => call.context \in Range(CorpusOf(hist.docs))

\* a Ready session after an ingestion that failed at the last stage, the
\* initialisation of the chain
C1_Witness ==
    /\ Ingesting /\ call.pc = "done" /\ call.outcome = "error"
    /\ call.vectorstore # None
    /\ call.before # None
    /\ retrieval_qa_chain = call.before

\* C2: while no ingestion has succeeded, ask_question ends at once with
\* HTTP 400: it retrieves nothing, generates nothing and returns no answer.
C2_AskBeforeIngestionIs400 ==
    (Asking /\ ~hist.ok) =>
        /\ call.pc = "done"
        /\ call.http = Http(400, <<"Documents have not been processed yet.">>)
        /\ call.context = <<>>
        /\ call.response = None

\* a 400 after an ingestion has failed and none has succeeded
C2_Witness ==
    /\ Asking /\ call.pc = "done" /\ call.http.status_code = 400
    /\ hist.failed /\ ~hist.ok

\* C3: the active corpus is the list of passages of the most recent
\* successful ingestion alone, and a question retrieves from those only.
C3_FullReplace ==
    /\ hist.ok =>
          /\ retrieval_qa_chain # None
          /\ retrieval_qa_chain.retriever.texts = CorpusOf(hist.docs)
    /\ (Asking /\ call.pc \in {"generate", "format"}) =>
          /\ call.chain.retriever.texts = CorpusOf(hist.docs)
          /\ call.context \in Range(CorpusOf(hist.docs))

\* a question answered after one corpus has replaced a different one
C3_Witness ==
    /\ hist.replaced
    /\ Asking /\ call.pc = "done" /\ call.http.status_code = 200
    /\ call.before # None
    /\ call.context \in Range(call.before.retriever.texts)

\* a chain whose index holds one vector for each of its passages
Complete(chain) ==
    /\ chain.retriever.texts # <<>>
    /\ chain.retriever.ntotal = Len(chain.retriever.texts)

\* C4: at every point of every interleaving, also in the middle of an
\* ingestion, the global chain and the chain an answer reads are absent or
\* the complete chain of one ingestion that ran its build to the end.
C4_NoHalfBuiltCorpus ==
    /\ retrieval_qa_chain # None =>
          /\ Complete(retrieval_qa_chain)
          /\ hist.ok /\ retrieval_qa_chain.retriever.texts = CorpusOf(hist.docs)
    /\ (Asking /\ call.chain # None) =>
          /\ Complete(call.chain)
          /\ call.chain = retrieval_qa_chain

\* a question waits while an ingestion over a Ready session is between
\* embedding and chain initialisation
C4_Witness ==
    /\ Ingesting /\ call.pc = "chain"
    /\ pending["ask"] > 0
    /\ retrieval_qa_chain # None
    /\ call.vectorstore.texts # retrieval_qa_chain.retriever.texts

\* C5: a failure of the generator ends ask_question with HTTP 500 and the
\* error message, and an ask_question call in any state, however it ends,
\* holds the chain it found at its start.
C5_AskNeverChangesSession ==
    /\ Asking => retrieval_qa_chain = call.before
    /\ (Asking /\ call.pc = "done" /\ call.context # <<>> /\ call.response = None) =>
          call.http = Http(500, <<"Error: ", "generation failed">>)

\* the generator failed on a passage that was retrieved
C5_Witness ==
    /\ Asking /\ call.pc = "done" /\ call.http.status_code = 500
    /\ call.context # <<>>
    /\ retrieval_qa_chain # None

\* a file that process_documents gets no text from: reading it raises, or
\* it is not a parseable PDF
Failing(file) == ~file.readable \/ ~file.content.parseable

\* the position of the first such file of an upload, 0 when there is none
FirstFailing(files) ==
    IF \E j \in DOMAIN files : Failing(files[j])
    THEN CHOOSE j \in DOMAIN files :
            /\ Failing(files[j])
            /\ \A k \in 1..(j - 1) : ~Failing(files[k])
    ELSE 0

\* the first failure of the upload is an extraction error
ExtractionError(files) ==
    FirstFailing(files) # 0 /\ files[FirstFailing(files)].readable

AllReadable(files) == \A j \in DOMAIN files : files[j].readable

\* the documents of an upload that parse
ParsedDocs(files) ==
    LET F[n \in 0..Len(files)] ==
            IF n = 0 THEN <<>>
            ELSE IF files[n].content.parseable THEN Append(F[n - 1], files[n].content)
            ELSE F[n - 1]
    IN  F[Len(files)]

\* an upload of several readable files, one of which does not parse while
\* the others together hold text
MixedUpload ==
    /\ call # Idle /\ call.kind = "upload"
    /\ Len(call.uploaded_files) >= 2
    /\ AllReadable(call.uploaded_files)
    /\ ExtractionError(call.uploaded_files)
    /\ strip(TextOf(ParsedDocs(call.uploaded_files))) # <<>>

\* C6 as stated: in an upload of several documents an extraction error on
\* one document does not end the ingestion; it goes on to the build stages
\* with the text of the documents that did parse.
C6_ExtractionErrorIsLocal ==
    (MixedUpload /\ call.pc = "done") =>
        /\ call.text = TextOf(ParsedDocs(call.uploaded_files))
        /\ <<"Splitting text into chunks...">> \in Range(call.status)

\* C6 as the code has it: the first document that does not parse ends the
\* whole ingestion there: the status is that document's error with the last
\* stage description, no later document is read, no build stage starts and
\* the session is unchanged.
C6_ExtractionErrorAborts ==
    (call # Idle /\ call.kind = "upload" /\ ExtractionError(call.uploaded_files)) =>
        LET j == FirstFailing(call.uploaded_files)
            error == <<"Error reading PDF: ">> \o call.uploaded_files[j].content.reason
        IN  /\ call.pc \in {"file", "done"}
            /\ call.i <= j
            /\ retrieval_qa_chain = call.before
            /\ call.pc = "done" =>
                  /\ call.outcome = "error"
                  /\ call.i = j
                  /\ Len(call.docs) = j - 1
                  /\ call.http = Http(200, last_status(error, call.status))
                  /\ call.text_chunks = <<>> /\ call.vectorstore = None

\* an upload ended by its first file although a later file holds text
C6_Witness ==
    /\ MixedUpload /\ call.pc = "done"
    /\ FirstFailing(call.uploaded_files) = 1
    /\ call.outcome = "error"

\* every document of the ingestion was read and parsed
Extracted(f) ==
    IF f.kind = "upload" THEN Len(f.docs) = Len(f.uploaded_files) ELSE Len(f.docs) = 1

StageLines ==
    { <<"Splitting text into chunks...">>, <<"Creating vectorstore...">>,
      <<"Initializing QA chain...">> }

\* C7: an ingestion whose documents all extract to blank text ends with the
\* no-text error, never enters chunking, embedding or index build, and
\* leaves the session as it was.
C7_BlankTextFails ==
    (Ingesting /\ Extracted(call) /\ strip(TextOf(call.docs)) = <<>>) =>
        /\ call.pc \in {"file", "download", "check", "done"}
        /\ Range(call.status) \cap StageLines = {}
        /\ call.text_chunks = <<>> /\ call.vectorstore = None
        /\ retrieval_qa_chain = call.before
        /\ call.pc = "done" =>
              /\ call.outcome = "error"
              /\ Lines(call.http.body)[1] = <<"Error: ", "No text found in the documents.">>

\* whitespace-only documents were ingested into an Empty session
C7_Witness ==
    /\ Ingesting /\ call.pc = "done" /\ Extracted(call)
    /\ TextOf(call.docs) # <<>> /\ strip(TextOf(call.docs)) = <<>>
    /\ retrieval_qa_chain = None

\* an ingestion call that returned its status string
ReturnedStatus == Ingesting /\ call.pc = "done" /\ ~call.http.unhandled

SuccessLine == <<"Documents processed successfully. Ask your questions!">>
ErrorPrefixes == {"Error: ", "Error reading PDF: ", "Error downloading from URL: "}

\* C8 as stated: the last line of the status string is the outcome, the
\* success message or an `Error: ...` line.
C8_OutcomeIsLastLine ==
    ReturnedStatus =>
        LET lines == Lines(call.http.body)
            last == lines[Len(lines)]
        IN  IF call.outcome = "success" THEN last = SuccessLine
            ELSE last # <<>> /\ last[1] = "Error: "

\* the text after "Status: " on the second line of a status string
TrailOf(body) ==
    LET n == Len(Lines(body)[1])
    IN  SubSeq(body, n + 3, Len(body))

\* C8 as the code has it: the first line of the status string is the
\* outcome, the success message exactly when the ingestion succeeded and a
\* line that begins with `Error` otherwise; after it comes "Status: " and
\* the newline-joined stage descriptions: every one recorded so far when
\* the ingestion ended at the blank-text check, in a build stage or with
\* success, and the most recent one alone when it ended in the file or
\* download stage.
C8_OutcomeIsFirstLine ==
    ReturnedStatus =>
        LET body == call.http.body
            lines == Lines(body)
        IN  /\ Len(lines) >= 2
            /\ (call.outcome = "success") <=> (lines[1] = SuccessLine)
            /\ (call.outcome # "success") => lines[1][1] \in ErrorPrefixes
            /\ lines[2][1] = "Status: "
            /\ call.at \in {"check", "split", "vectorstore", "chain"} =>
                  /\ TrailOf(body) = join(call.status)
                  /\ Len(lines) = 1 + (IF call.status = <<>> THEN 1 ELSE Len(call.status))
            /\ call.at \in {"file", "download"} =>
                  /\ TrailOf(body) = call.status[Len(call.status)]
                  /\ Len(lines) = 2
            /\ call.at \in {"file", "download", "check", "split", "vectorstore", "chain"}

\* a successful ingestion whose status ends with a stage description
C8_Witness ==
    /\ ReturnedStatus /\ call.outcome = "success"
    /\ Len(Lines(call.http.body)) = Len(call.status) + 1
    /\ Lines(call.http.body)[Len(call.status) + 1] = <<"Initializing QA chain...">>

\* C9 as stated: while ask_question is in the generator call, a waiting
\* ingestion request can start.
C9_GenerationDoesNotHoldSession ==
    (Asking /\ call.pc = "generate" /\ pending["upload"] > 0) => ENABLED upload_documents

\* C10 as stated: every call ends classified: an ingestion with a status
\* string, ask_question with 200, with 400 when the session is Empty, or
\* with 500 and the error message.
C10_NothingUnclassified ==
    (call # Idle /\ call.pc = "done") =>
        /\ ~call.http.unhandled
        /\ Ingesting => call.http.status_code = 200
        /\ Asking =>
              /\ call.http.status_code \in {200, 400, 500}
              /\ (call.http.status_code = 400) <=> (call.before = None)
              /\ (call.http.status_code = 500) => call.http.body[1] = "Error: "

\* requests.get returned a response whose status code is not 200
BadStatus(f) == f.fetched # None /\ ~f.fetched.raised /\ f.fetched.status_code # 200

\* requests.get raised
DownloadRaised(f) == f.fetched # None /\ f.fetched.raised

\* C11: a URL ingestion whose download answers with a status code other
\* than 200 returns the line `Error: Failed to download (Status <code>)`
\* with that code, and one whose download raises returns an error line; in
\* both cases nothing is extracted, no later stage starts and the session
\* is as it was.
C11_DownloadFailureAborts ==
    (call # Idle /\ call.kind = "url" /\ (BadStatus(call) \/ DownloadRaised(call))) =>
        /\ call.pc = "done" /\ call.outcome = "error" /\ call.at = "download"
        /\ call.docs = <<>> /\ call.text = <<>>
        /\ call.text_chunks = <<>> /\ call.vectorstore = None
        /\ Range(call.status) \cap StageLines = {}
        /\ retrieval_qa_chain = call.before
        /\ BadStatus(call) =>
              Lines(call.http.body)[1] =
                 <<"Error: ", "Failed to download (Status ",
                   CodeStr[call.fetched.status_code], ")">>
        /\ DownloadRaised(call) =>
              Lines(call.http.body)[1] =
                 <<"Error downloading from URL: ">> \o call.fetched.reason

\* a 404 whose body is a PDF with text, received by a Ready session
C11_Witness ==
    /\ call # Idle /\ call.kind = "url" /\ call.pc = "done"
    /\ BadStatus(call) /\ call.fetched.status_code = 404
    /\ call.fetched.content = DocX
    /\ call.before # None

\* C12: the session is Empty, or its chain is over at least one passage and
\* each passage holds text that is not blank.
C12_EmptyOrNonEmptyCorpus ==
    retrieval_qa_chain # None =>
        /\ Len(retrieval_qa_chain.retriever.texts) >= 1
        /\ retrieval_qa_chain.retriever.ntotal >= 1
        /\ \A n \in DOMAIN retrieval_qa_chain.retriever.texts :
              strip(retrieval_qa_chain.retriever.texts[n]) # <<>>

\* a chain over one passage was installed from a text with blanks around it
\* and in it, and a later ingestion of blank documents has just failed
C12_Witness ==
    /\ Ingesting /\ call.pc = "done" /\ call.at = "check"
    /\ call.docs # <<>>
    /\ retrieval_qa_chain # None
    /\ retrieval_qa_chain.retriever.texts = << <<"c", " ", "a", "b">> >>

\* the stage descriptions of a call in pipeline order: the source stage
\* (files or download), then splitting, vectorstore creation and chain
\* initialisation
SourceTrail(f) ==
    IF f.kind = "upload"
    THEN << <<"Processing uploaded files...">> >>
         \o [n \in 1..Len(f.docs) |-> <<"Processed file: ", f.uploaded_files[n].filename>>]
    ELSE IF f.url = <<>> THEN <<>>
    ELSE << <<"Downloading from URL: ">> \o f.url >>
         \o (IF f.docs = <<>> THEN <<>> ELSE << <<"Downloaded and processed PDF from URL">> >>)

BuildTrail ==
    << <<"Splitting text into chunks...">>, <<"Creating vectorstore...">>,
       <<"Initializing QA chain...">> >>

\* the number of build stages that were started when the call ended
BuildStarted(f) ==
    CASE f.at = "split" -> 1
      [] f.at = "vectorstore" -> 2
      [] f.at = "chain" -> 3
      [] OTHER -> 0

\* every description recorded up to the end of the call
Recorded(f) == SourceTrail(f) \o SubSeq(BuildTrail, 1, BuildStarted(f))

\* C13 as stated: the returned status lists, in pipeline order, every
\* stage description recorded before the ingestion stopped.
C13_TrailIsComplete ==
    ReturnedStatus => TrailOf(call.http.body) = join(Recorded(call))

\* C13 as the code has it: an ingestion that stopped at the blank-text
\* check or in a build stage, or that succeeded, returns every recorded
\* description in pipeline order; one that stopped in the file or download
\* stage returns the most recent description alone.
C13_TrailCompleteAfterExtraction ==
    ReturnedStatus =>
        /\ call.status = Recorded(call)
        /\ call.at \in {"check", "split", "vectorstore", "chain"} =>
              TrailOf(call.http.body) = join(Recorded(call))
        /\ call.at \in {"file", "download"} =>
              TrailOf(call.http.body) = Recorded(call)[Len(Recorded(call))]

\* an upload of two files that failed in the embedding stage and returned
\* its five descriptions
C13_Witness ==
    /\ ReturnedStatus /\ call.kind = "upload" /\ call.at = "vectorstore"
    /\ Len(call.docs) = 2
    /\ Len(Lines(call.http.body)) = 6

\* ask_question has just ended with HTTP 400
Answered400 ==
    call # Idle /\ call.kind = "ask" /\ call.pc = "done" /\ call.http.status_code = 400

\* C14: no step takes a session that holds a chain back to Empty, and no
\* step of such a session ends ask_question with HTTP 400.
C14_NeverBackToEmpty ==
    [][retrieval_qa_chain # None => (retrieval_qa_chain' # None /\ ~Answered400')]_vars

\* a question answered with 200 after ingestions have both failed and
\* replaced the corpus
C14_Witness ==
    /\ Asking /\ call.pc = "done" /\ call.http.status_code = 200
    /\ hist.failed /\ hist.replaced

\* C15: when an ingestion request was waiting while another ingestion ran
\* and succeeded, and then succeeds itself, the session holds the complete
\* corpus of this later one alone: its passages, one vector for each, and
\* no passage of the earlier one.
C15_LastFinishedWins ==
    (Ingesting /\ call.pc = "done" /\ call.outcome = "success" /\ call.overlapped) =>
        /\ retrieval_qa_chain # None
        /\ Complete(retrieval_qa_chain)
        /\ retrieval_qa_chain.retriever.texts = CorpusOf(call.docs)
        /\ retrieval_qa_chain = initialize_retrieval_qa(call.vectorstore)

\* two overlapping uploads both succeeded, with different corpora
C15_Witness ==
    /\ Ingesting /\ call.pc = "done" /\ call.outcome = "success" /\ call.overlapped
    /\ call.before # None
    /\ call.before.retriever.texts # CorpusOf(call.docs)

\* the text of one page, "" for a page without text
PageString(page) == IF page = None THEN <<>> ELSE page.s

\* the texts of the pages one after the other, first page first
InPageOrder(pages) ==
    LET upto[n \in 0..Len(pages)] ==
            IF n = 0 THEN <<>> ELSE upto[n - 1] \o PageString(pages[n])
    IN  upto[Len(pages)]

Readable(file) ==
    file.parseable /\ \A n \in DOMAIN file.pages : ~IsBroken(file.pages[n])

\* C16: for a document that parses, extract_text_from_pdf returns the texts
\* of all its pages in page order and no error, a page without text adding
\* nothing; for one that does not parse, or whose page raises, it returns
\* an error and no text.
C16_ExtractConcatenatesPages ==
    (call.kind = "extract" /\ call.pc = "done") =>
        IF Readable(call.file)
        THEN /\ call.result.error = None
             /\ call.result.text = Text(InPageOrder(call.file.pages))
        ELSE /\ call.result.text = None
             /\ call.result.error # None
             /\ call.result.error.s[1] = "Error reading PDF: "

\* a document whose middle page has no text and whose last page has
C16_Witness ==
    /\ call.kind = "extract" /\ call.pc = "done"
    /\ call.file = Pdf(<< Text(<<"b", " ">>), None, Text(<<"a">>) >>)
    /\ call.result.text = Text(<<"b", " ", "a">>)

\* C17: format_response returns a value for every raw answer and raises
\* for none: a string comes back as a string wrapped in <p>...</p> with no
\* blank at either end of the inside, and a value the pattern stripping
\* fails on comes back as it was.
C17_FormatResponseIsTotal ==
    (call.kind = "format" /\ call.pc = "done") =>
        /\ ~("raised" \in DOMAIN call.result)
        /\ call.response = None => call.result = call.response
        /\ call.response # None =>
              LET out == call.result.s
                  inner == SubSeq(out, 2, Len(out) - 1)
              IN  /\ Len(out) >= 2
                  /\ out[1] = "<p>" /\ out[Len(out)] = "</p>"
                  /\ strip(inner) = inner

\* the stripping failed on a value that is not a string, and it came back
C17_Witness ==
    /\ call.kind = "format" /\ call.pc = "done"
    /\ call.response = None
    /\ call.result = None

====
